---------------------------- MODULE Spec2Model ----------------------------
(***************************************************************************)
(* A model of vcf_validation.py: the streaming, fail-fast VCF validator.   *)
(*                                                                         *)
(* A run of validate_vcf(vcf_file, strict, report) is a state machine      *)
(* whose steps are: the extension dispatch and open, the reading of one    *)
(* physical line (meta, header or data line), each of the nine field       *)
(* validator calls on a data line, the end-of-stream checks, and the       *)
(* report.  Lines are strings; split, strip, startswith and the regular    *)
(* expressions are computed character by character.                        *)
(***************************************************************************)
EXTENDS Integers, Sequences, FiniteSets, TLC

(***************************************************************************)
(* Python string primitives.                                               *)
(***************************************************************************)

\* str.startswith
StartsWith(s, p) == Len(s) >= Len(p) /\ SubSeq(s, 1, Len(p)) = p

\* str.endswith
EndsWith(s, p) == Len(s) >= Len(p) /\ SubSeq(s, Len(s) - Len(p) + 1, Len(s)) = p

\* the "in" operator on strings: p occurs in s
Contains(s, p) ==
    \E i \in 1..(Len(s) - Len(p) + 1) : SubSeq(s, i, i + Len(p) - 1) = p

\* str.find, 1-based; 0 when sep does not occur
Find(s, sep) ==
    LET hits == {i \in 1..(Len(s) - Len(sep) + 1) : SubSeq(s, i, i + Len(sep) - 1) = sep}
    IN  IF hits = {} THEN 0 ELSE CHOOSE i \in hits : \A j \in hits : i <= j

\* str.split(sep): always at least one field, empty fields kept
RECURSIVE Split(_, _)
Split(s, sep) ==
    LET i == Find(s, sep)
    IN  IF i = 0 THEN <<s>>
        ELSE <<SubSeq(s, 1, i - 1)>> \o Split(SubSeq(s, i + Len(sep), Len(s)), sep)

\* str.split(sep, 1): at most one split
Split1(s, sep) ==
    LET i == Find(s, sep)
    IN  IF i = 0 THEN <<s>>
        ELSE <<SubSeq(s, 1, i - 1), SubSeq(s, i + Len(sep), Len(s))>>

\* the characters str.strip() removes (those a TLA+ string can spell)
Whitespace == {" ", "\t", "\n", "\r", "\f"}

RECURSIVE LStrip(_)
LStrip(s) ==
    IF Len(s) > 0 /\ SubSeq(s, 1, 1) \in Whitespace
    THEN LStrip(SubSeq(s, 2, Len(s))) ELSE s

RECURSIVE RStrip(_)
RStrip(s) ==
    IF Len(s) > 0 /\ SubSeq(s, Len(s), Len(s)) \in Whitespace
    THEN RStrip(SubSeq(s, 1, Len(s) - 1)) ELSE s

\* str.strip(): leading and trailing whitespace removed, tabs included
Strip(s) == LStrip(RStrip(s))

(***************************************************************************)
(* The regular expressions of the field validators.                        *)
(***************************************************************************)

Digit == {"0", "1", "2", "3", "4", "5", "6", "7", "8", "9"}
Upper == {"A", "B", "C", "D", "E", "F", "G", "H", "I", "J", "K", "L", "M",
          "N", "O", "P", "Q", "R", "S", "T", "U", "V", "W", "X", "Y", "Z"}
Lower == {"a", "b", "c", "d", "e", "f", "g", "h", "i", "j", "k", "l", "m",
          "n", "o", "p", "q", "r", "s", "t", "u", "v", "w", "x", "y", "z"}
Word == Digit \cup Upper \cup Lower \cup {"_"}

\* [class]+ : one or more characters, all of the class
Plus(s, class) == Len(s) > 0 /\ \A i \in 1..Len(s) : SubSeq(s, i, i) \in class

\* tok1(;tok)* : ';'-separated tokens, the first [first]+, the others [rest]+
TokenList(s, first, rest) ==
    LET toks == Split(s, ";")
    IN  /\ Plus(toks[1], first)
        /\ \A i \in 2..Len(toks) : Plus(toks[i], rest)

\* '$' matches at the end of the string and before a final newline: the
\* strings that a pattern ending in '$' may have matched in full
Dollar(s) ==
    {s} \cup (IF EndsWith(s, "\n") THEN {SubSeq(s, 1, Len(s) - 1)} ELSE {})

\* ^[0-9A-Za-z_]+$
ReChrom(s) == \E t \in Dollar(s) : Plus(t, Word)

\* ^[0-9]+$
RePos(s) == \E t \in Dollar(s) : Plus(t, Digit)

\* ^([A-Za-z0-9:_.]+(;[A-Za-z0-9_.]+)*)?$
ReId(s) ==
    \E t \in Dollar(s) : t = "" \/ TokenList(t, Word \cup {":", "."}, Word \cup {"."})

\* ^[ACGTN]+$
ReRef(s) == \E t \in Dollar(s) : Plus(t, {"A", "C", "G", "T", "N"})

\* ^[0-9]+(\.[0-9]+)?$
ReQual(s) ==
    \E t \in Dollar(s) :
        LET p == Split(t, ".")
        IN  /\ Len(p) \in {1, 2}
            /\ \A i \in 1..Len(p) : Plus(p[i], Digit)

\* ^([A-Za-z0-9_]+(;[A-Za-z0-9_]+)*)?$|^\.$
ReFilter(s) ==
    \E t \in Dollar(s) : t = "" \/ TokenList(t, Word, Word) \/ t = "."

(***************************************************************************)
(* The nine field validators.  Each yields the lines it prints: none when  *)
(* the value passes, and otherwise the diagnostic it prints before         *)
(* sys.exit(1).                                                            *)
(***************************************************************************)

validate_chrom(value, line_number, line) ==
    IF ~ReChrom(value)
    THEN <<"Error: Invalid chromosome on line " \o ToString(line_number) \o ": " \o Strip(line)>>
    ELSE <<>>

validate_pos(value, line_number, line) ==
    IF ~RePos(value)
    THEN <<"Error: Invalid position on line " \o ToString(line_number) \o ": " \o Strip(line)>>
    ELSE <<>>

validate_id(value, line_number, line) ==
    IF ~ReId(value)
    THEN <<"Error: Invalid ID on line " \o ToString(line_number) \o ": " \o Strip(line)>>
    ELSE IF ~Contains(value, "LOSS") /\ ~Contains(value, "GAIN")
    THEN <<"Error: ID field doesn't contain 'LOSS' or 'GAIN' on line " \o ToString(line_number) \o ": " \o Strip(line)>>
    ELSE <<>>

validate_ref(value, line_number, line) ==
    IF ~ReRef(value)
    THEN <<"Error: Invalid reference allele on line " \o ToString(line_number) \o ": " \o Strip(line)>>
    ELSE <<>>

\* validate_alt without its second, explanatory line
validate_alt_terse(value, line_number, line) ==
    IF value # "<CNV>"
    THEN <<"Error: Invalid alternate allele on line " \o ToString(line_number) \o ": " \o Strip(line)>>
    ELSE <<>>

validate_alt(value, line_number, line) ==
    IF value # "<CNV>"
    THEN <<"Error: Invalid alternate allele on line " \o ToString(line_number) \o ": " \o Strip(line),
           "ALT must be <CNV> for copy number variants.">>
    ELSE <<>>

\* validate_qual with "or" for "and": "." and every number are rejected
validate_qual_or(value, line_number, line) ==
    IF ~ReQual(value) \/ value # "."
    THEN <<"Error: Invalid quality on line " \o ToString(line_number) \o ": " \o Strip(line)>>
    ELSE <<>>

validate_qual(value, line_number, line) ==
    IF ~ReQual(value) /\ value # "."
    THEN <<"Error: Invalid quality on line " \o ToString(line_number) \o ": " \o Strip(line)>>
    ELSE <<>>

validate_filter(value, line_number, line) ==
    IF ~ReFilter(value)
    THEN <<"Error: Invalid filter on line " \o ToString(line_number) \o ": " \o Strip(line)>>
    ELSE <<>>

validate_info(value, line_number, line) ==
    IF ~Contains(value, "SVTYPE=CNV")
    THEN <<"Error: Missing SVTYPE=CNV in INFO field on line " \o ToString(line_number) \o ": " \o Strip(line)>>
    ELSE <<>>

validate_format(value, line_number, line) ==
    IF ~Contains(value, "CN")
    THEN <<"Error: Missing 'CN' in FORMAT field on line " \o ToString(line_number) \o ": " \o Strip(line)>>
    ELSE <<>>

\* the k-th validator call of the data-line branch, on fields[k-1] (0-based)
Validator(k, value, line_number, line) ==
    CASE k = 1 -> validate_chrom(value, line_number, line)
      [] k = 2 -> validate_pos(value, line_number, line)
      [] k = 3 -> validate_id(value, line_number, line)
      [] k = 4 -> validate_ref(value, line_number, line)
      [] k = 5 -> validate_alt(value, line_number, line)
      [] k = 6 -> validate_qual(value, line_number, line)
      [] k = 7 -> validate_filter(value, line_number, line)
      [] k = 8 -> validate_info(value, line_number, line)
      [] k = 9 -> validate_format(value, line_number, line)

(***************************************************************************)
(* The pieces of the driver loop that are pure.                            *)
(***************************************************************************)

\* the split without the strip: line.split('\t')
split_unstripped(line) == Split(line, "\t")

\* line.strip().split('\t')
strip_split(line) == Split(Strip(line), "\t")

\* line.split('<',1)[1] raises IndexError when the line holds no '<'
ContigRaises(line) == Len(Split1(line, "<")) < 2

\* contig_info = line.split('<',1)[1].split('>')[0]
contig_info(line) == Split(Split1(line, "<")[2], ">")[1]

\* id_info = [x for x in contig_info.split(',') if x.startswith('ID=')]
id_info(line) == SelectSeq(Split(contig_info(line), ","), LAMBDA x : StartsWith(x, "ID="))

\* contig_id = id_info[0].split('=')[1]
contig_id(line) == Split(id_info(line)[1], "=")[2]

\* sample_names = header_fields[9:]
sample_names(header_fields) == SubSeq(header_fields, 10, Len(header_fields))

\* len(sample_names) != len(set(sample_names))
HasDuplicates(names) == Len(names) # Cardinality({names[i] : i \in 1..Len(names)})

(***************************************************************************)
(* The inputs: a path and a file, as a sequence of physical lines, each    *)
(* ending in a newline as iteration over a text file yields them.          *)
(***************************************************************************)

\* the longest file read, in lines
MaxLines == 3

Paths == {"sample.vcf", "sample.vcf.gz", "sample.txt"}

RECURSIVE Join(_, _)
Join(parts, sep) ==
    IF Len(parts) = 1 THEN parts[1] ELSE parts[1] \o sep \o Join(Tail(parts), sep)

\* a physical line of tab-separated columns
Row(columns) == Join(columns, "\t") \o "\n"

FileformatLine == "##fileformat=VCFv4.2\n"
ContigLine     == "##contig=<ID=1>\n"
ContigChrLine  == "##contig=<ID=chr1>\n"
ContigNoIdLine == "##contig=<length=5>\n"
ContigBareLine == "##contig=1\n"

FixedColumns == <<"#CHROM", "POS", "ID", "REF", "ALT", "QUAL", "FILTER", "INFO">>
HeaderLine          == Row(FixedColumns \o <<"FORMAT", "S1", "S2">>)
HeaderNoFormatLine  == Row(FixedColumns \o <<"S1">>)
HeaderDuplicateLine == Row(FixedColumns \o <<"FORMAT", "S1", "S1">>)
HeaderTrailingTabLine == Row(FixedColumns \o <<"">>)

RecordLine        == Row(<<"1", "1", "GAIN1", "A", "<CNV>", "30", "PASS", "SVTYPE=CNV", "CN:GT", "0/1">>)
RecordBadAltLine  == Row(<<"1", "1", "GAIN1", "A", "A", "30", "PASS", "SVTYPE=CNV", "CN:GT", "0/1">>)
RecordBadChromAltLine == Row(<<"chr-1", "1", "GAIN1", "A", "<DEL>", "30", "PASS", "SVTYPE=CNV", "CN:GT", "0/1">>)
RecordBadQualFormatLine == Row(<<"X", "20", "LOSS_2", "N", "<CNV>", "high", ".", "END=9;SVTYPE=CNV", "GT">>)
RecordShortLine   == Row(<<"1", "1", "GAIN1", "A", "<CNV>", "30", "PASS", "SVTYPE=CNV">>)
RecordEmptyFormatLine == Row(<<"1", "1", "GAIN1", "A", "<CNV>", "30", "PASS", "SVTYPE=CNV", "">>)

Pool == {FileformatLine, ContigLine, ContigChrLine, ContigNoIdLine, ContigBareLine,
         HeaderLine, HeaderNoFormatLine, HeaderDuplicateLine, HeaderTrailingTabLine,
         RecordLine, RecordBadAltLine, RecordBadChromAltLine, RecordBadQualFormatLine,
         RecordShortLine, RecordEmptyFormatLine}

\* header_fields / fields of each line that can be read
fields == [line \in Pool |-> strip_split(line)]

Files == UNION {[1..n -> Pool] : n \in 0..MaxLines}

(***************************************************************************)
(* The state of one run of validate_vcf.                                   *)
(***************************************************************************)
VARIABLES
    vcf_file,          \* argument: the path
    strict,            \* argument
    report,            \* argument
    file,              \* the lines of the file at vcf_file
    pc,                \* "entry", "loop", "fields", "report" or "done"
    open_func,         \* "open" or "gzip.open" once chosen
    handle,            \* the with-block's file object: "none", "open", "closed"
    line_number,
    fileformat_found,
    header_found,
    vnext,             \* in a data line: the validator call to make next (1..9)
    calls,             \* the validator calls made so far: <<line_number, k, value>>
    out,               \* the lines printed so far
    outcome,           \* "running", "returned", "SystemExit" or "IndexError"
    earlier,           \* what the earlier calls on the same file ended in
    position           \* the number of lines the for loop has taken from the file

vars == <<vcf_file, strict, report, file, pc, open_func, handle, line_number,
          fileformat_found, header_found, vnext, calls, out, outcome, earlier,
          position>>

args == <<vcf_file, strict, report, file>>

Init ==
    /\ vcf_file \in Paths
    /\ strict \in BOOLEAN
    /\ report \in BOOLEAN
    /\ file \in Files
    /\ pc = "entry"
    /\ open_func = "unset"
    /\ handle = "none"
    /\ line_number = 0
    /\ fileformat_found = FALSE
    /\ header_found = FALSE
    /\ vnext = 0
    /\ calls = <<>>
    /\ out = <<>>
    /\ outcome = "running"
    /\ earlier = <<>>
    /\ position = 0

\* sys.exit(1) with the file left open
Exit_NoClose(msgs) ==
    /\ out' = out \o msgs
    /\ outcome' = "SystemExit"
    /\ pc' = "done"
    /\ handle' = handle

\* print(...) each of msgs, then sys.exit(1): SystemExit leaves the with-block,
\* which closes the file when one is open
Exit(msgs) ==
    /\ out' = out \o msgs
    /\ outcome' = "SystemExit"
    /\ pc' = "done"
    /\ handle' = IF handle = "open" THEN "closed" ELSE handle

\* an uncaught IndexError leaves the with-block, printing nothing
Raise(exception) ==
    /\ outcome' = exception
    /\ pc' = "done"
    /\ handle' = IF handle = "open" THEN "closed" ELSE handle
    /\ UNCHANGED out

\* "continue": on to the next line of the for loop
Continue ==
    /\ pc' = "loop"
    /\ UNCHANGED <<handle, out, outcome>>

\* lines 133-146: the extension dispatch, the open, the initial state
Open ==
    /\ pc = "entry"
    /\ UNCHANGED <<args, earlier, vnext, calls>>
    /\ IF EndsWith(vcf_file, ".vcf") \/ EndsWith(vcf_file, ".gz")
       THEN /\ open_func' = IF EndsWith(vcf_file, ".vcf") THEN "open" ELSE "gzip.open"
            /\ handle' = "open"
            /\ position' = 0
            /\ line_number' = 0
            /\ fileformat_found' = FALSE
            /\ header_found' = FALSE
            /\ pc' = "loop"
            /\ UNCHANGED <<out, outcome>>
       ELSE /\ Exit(<<"File type not recognised.",
                      "Usage: python vcf_validation.py <*.vcf|*.gz>">>)
            /\ UNCHANGED <<open_func, position, line_number, fileformat_found, header_found>>

\* the meta-line branch with the line counter left as it was: meta-lines uncounted
ReadMetaLine_Uncounted ==
    /\ pc = "loop"
    /\ position < Len(file)
    /\ LET line == file[position + 1] IN
       /\ StartsWith(line, "##")
       /\ position' = position + 1
       /\ line_number' = line_number
       /\ fileformat_found' = (fileformat_found \/ StartsWith(line, "##fileformat"))
       /\ IF StartsWith(line, "##contig")
          THEN IF ContigRaises(line)
               THEN Raise("IndexError")
               ELSE IF id_info(line) # <<>> /\ StartsWith(contig_id(line), "chr")
               THEN Exit(<<"Error: Contig ID starts with 'chr' on line "
                           \o ToString(line_number + 1) \o ": " \o Strip(line)>>)
               ELSE Continue
          ELSE Continue
    /\ UNCHANGED <<args, earlier, open_func, header_found, vnext, calls>>

\* lines 147-160: one iteration of the loop on a meta-line
ReadMetaLine ==
    /\ pc = "loop"
    /\ position < Len(file)
    /\ LET line == file[position + 1] IN
       /\ StartsWith(line, "##")
       /\ position' = position + 1
       /\ line_number' = line_number + 1
       /\ fileformat_found' = (fileformat_found \/ StartsWith(line, "##fileformat"))
       /\ IF StartsWith(line, "##contig")
          THEN IF ContigRaises(line)
               THEN Raise("IndexError")
               ELSE IF id_info(line) # <<>> /\ StartsWith(contig_id(line), "chr")
               THEN Exit(<<"Error: Contig ID starts with 'chr' on line "
                           \o ToString(line_number + 1) \o ": " \o Strip(line)>>)
               ELSE Continue
          ELSE Continue
    /\ UNCHANGED <<args, earlier, open_func, header_found, vnext, calls>>

\* lines 147-148, 161-172: one iteration of the loop on the #CHROM line
ReadHeaderLine ==
    /\ pc = "loop"
    /\ position < Len(file)
    /\ LET line == file[position + 1]
           header_fields == fields[line]
       IN
       /\ ~StartsWith(line, "##")
       /\ StartsWith(line, "#CHROM")
       /\ position' = position + 1
       /\ line_number' = line_number + 1
       /\ header_found' = TRUE
       /\ IF Len(header_fields) > 8 /\ header_fields[9] # "FORMAT"
          THEN Exit(<<"Error: FORMAT column missing from header line">>)
          ELSE IF Len(header_fields) > 9 /\ HasDuplicates(sample_names(header_fields))
          THEN Exit(<<"Error: Duplicate sample names in header line">>)
          ELSE Continue
    /\ UNCHANGED <<args, earlier, open_func, fileformat_found, vnext, calls>>

\* the data-line branch with the field validators run in strict mode only
ReadDataLine_StrictOnly ==
    /\ pc = "loop"
    /\ position < Len(file)
    /\ LET line == file[position + 1] IN
       /\ ~StartsWith(line, "##")
       /\ ~StartsWith(line, "#CHROM")
       /\ position' = position + 1
       /\ line_number' = line_number + 1
       /\ IF Len(fields[line]) < 9
          THEN /\ Exit(<<"Error: Incorrect number of columns on line "
                         \o ToString(line_number + 1) \o ": " \o Strip(line)>>)
               /\ UNCHANGED vnext
          ELSE IF strict
          THEN /\ pc' = "fields"
               /\ vnext' = 1
               /\ UNCHANGED <<handle, out, outcome>>
          ELSE Continue /\ UNCHANGED vnext
    /\ UNCHANGED <<args, earlier, open_func, fileformat_found, header_found, calls>>

\* lines 147-148, 173-177: a data line is read, split and its columns counted
ReadDataLine ==
    /\ pc = "loop"
    /\ position < Len(file)
    /\ LET line == file[position + 1] IN
       /\ ~StartsWith(line, "##")
       /\ ~StartsWith(line, "#CHROM")
       /\ position' = position + 1
       /\ line_number' = line_number + 1
       /\ IF Len(fields[line]) < 9
          THEN /\ Exit(<<"Error: Incorrect number of columns on line "
                         \o ToString(line_number + 1) \o ": " \o Strip(line)>>)
               /\ UNCHANGED vnext
          ELSE /\ pc' = "fields"
               /\ vnext' = 1
               /\ UNCHANGED <<handle, out, outcome>>
    /\ UNCHANGED <<args, earlier, open_func, fileformat_found, header_found, calls>>

\* lines 179-187: the k-th validator call on the current data line
CallValidator(k) ==
    /\ pc = "fields"
    /\ vnext = k
    /\ LET line == file[position]
           printed == Validator(k, fields[line][k], line_number, line)
       IN
       /\ calls' = Append(calls, <<line_number, k, fields[line][k]>>)
       /\ IF printed # <<>>
          THEN Exit(printed) /\ UNCHANGED vnext
          ELSE IF k < 9
          THEN /\ vnext' = k + 1
               /\ UNCHANGED <<pc, handle, out, outcome>>
          ELSE /\ vnext' = 0
               /\ Continue
    /\ UNCHANGED <<args, earlier, position, open_func, line_number, fileformat_found, header_found>>

CallValidateChrom  == CallValidator(1)
CallValidatePos    == CallValidator(2)
CallValidateId     == CallValidator(3)
CallValidateRef    == CallValidator(4)
CallValidateAlt    == CallValidator(5)
CallValidateQual   == CallValidator(6)
CallValidateFilter == CallValidator(7)
CallValidateInfo   == CallValidator(8)
CallValidateFormat == CallValidator(9)

\* the end of the stream with the fileformat_found check left out
EndOfStream_HeaderOnly ==
    /\ pc = "loop"
    /\ position = Len(file)
    /\ IF ~header_found
       THEN Exit(<<"Error: Missing #CHROM header line">>)
       ELSE /\ handle' = "closed"
            /\ pc' = "report"
            /\ UNCHANGED <<out, outcome>>
    /\ UNCHANGED <<args, earlier, position, open_func, line_number, fileformat_found, header_found, vnext, calls>>

\* the end of the stream with the header_found check left out
EndOfStream_FileformatOnly ==
    /\ pc = "loop"
    /\ position = Len(file)
    /\ IF ~fileformat_found
       THEN Exit(<<"Error: Missing ##fileformat header">>)
       ELSE /\ handle' = "closed"
            /\ pc' = "report"
            /\ UNCHANGED <<out, outcome>>
    /\ UNCHANGED <<args, earlier, position, open_func, line_number, fileformat_found, header_found, vnext, calls>>

\* lines 189-194: the loop is over; the two flags are checked, the with-block left
EndOfStream ==
    /\ pc = "loop"
    /\ position = Len(file)
    /\ IF ~fileformat_found
       THEN Exit(<<"Error: Missing ##fileformat header">>)
       ELSE IF ~header_found
       THEN Exit(<<"Error: Missing #CHROM header line">>)
       ELSE /\ handle' = "closed"
            /\ pc' = "report"
            /\ UNCHANGED <<out, outcome>>
    /\ UNCHANGED <<args, earlier, position, open_func, line_number, fileformat_found, header_found, vnext, calls>>

\* the report step with the completion message printed whatever report is
Report_Always ==
    /\ pc = "report"
    /\ out' = Append(out, "VCF file validation completed. No structural errors found.")
    /\ outcome' = "returned"
    /\ pc' = "done"
    /\ UNCHANGED <<args, earlier, position, open_func, handle, line_number, fileformat_found, header_found,
                   vnext, calls>>

\* lines 196-197: the completion message, then the function returns
Report ==
    /\ pc = "report"
    /\ out' = IF report
              THEN Append(out, "VCF file validation completed. No structural errors found.")
              ELSE out
    /\ outcome' = "returned"
    /\ pc' = "done"
    /\ UNCHANGED <<args, earlier, position, open_func, handle, line_number, fileformat_found, header_found,
                   vnext, calls>>

Next ==
    \/ Open
    \/ ReadMetaLine
    \/ ReadHeaderLine
    \/ ReadDataLine
    \/ CallValidateChrom
    \/ CallValidatePos
    \/ CallValidateId
    \/ CallValidateRef
    \/ CallValidateAlt
    \/ CallValidateQual
    \/ CallValidateFilter
    \/ CallValidateInfo
    \/ CallValidateFormat
    \/ EndOfStream
    \/ Report

Spec == Init /\ [][Next]_vars

\* what a call ended in: its outcome, its output, the checks it made
Ending ==
    [outcome |-> outcome, out |-> out, line_number |-> line_number, calls |-> calls,
     fileformat_found |-> fileformat_found, header_found |-> header_found,
     open_func |-> open_func, handle |-> handle]

\* lines 130, 132: the call has ended; validate_vcf is called again on the same
\* path, with the same report and the other value of strict
CallAgain ==
    /\ pc = "done"
    /\ earlier = <<>>
    /\ earlier' = <<Ending>>
    /\ strict' = ~strict
    /\ pc' = "entry"
    /\ open_func' = "unset"
    /\ handle' = "none"
    /\ position' = 0
    /\ line_number' = 0
    /\ fileformat_found' = FALSE
    /\ header_found' = FALSE
    /\ vnext' = 0
    /\ calls' = <<>>
    /\ out' = <<>>
    /\ outcome' = "running"
    /\ UNCHANGED <<vcf_file, report, file>>

NextTwice == Next \/ CallAgain

\* line 132: the first call leaves strict at its default, False
InitTwice == Init /\ strict = FALSE

\* two calls on the same file: strict=False, then strict=True
SpecTwice == InitTwice /\ [][NextTwice]_vars

(***************************************************************************)
(* Vocabulary of the properties: the kinds of lines of the file being      *)
(* read, and the field rules as the specification's table states them.     *)
(***************************************************************************)

\* a line without its line terminator
Chomp(line) == IF EndsWith(line, "\n") THEN SubSeq(line, 1, Len(line) - 1) ELSE line

\* the tab-separated fields of each line as it stands in the file
raw_columns == [line \in Pool |-> Split(Chomp(line), "\t")]

\* the tab-separated fields of each line once leading and trailing whitespace is removed
columns == [line \in Pool |-> Split(Strip(line), "\t")]

FileformatLines == {line \in Pool : StartsWith(line, "##fileformat")}
MetaLines       == {line \in Pool : StartsWith(line, "##")}
ContigLines     == {line \in Pool : StartsWith(line, "##contig")}
HeaderLines     == {line \in Pool \ MetaLines : StartsWith(line, "#CHROM")}
DataLines       == Pool \ (MetaLines \cup HeaderLines)

\* ##contig lines with no '<': no angle-bracketed attribute list at all
BareContigLines == {line \in ContigLines : ~Contains(line, "<")}

\* ##contig lines whose (first) ID= attribute value begins with "chr"
ChrContigLines ==
    {line \in ContigLines \ BareContigLines :
        id_info(line) # <<>> /\ StartsWith(contig_id(line), "chr")}

\* #CHROM lines that break the FORMAT rule, or the sample-name rule
NoFormatHeaderLines ==
    {line \in HeaderLines : Len(columns[line]) > 8 /\ columns[line][9] # "FORMAT"}
DuplicateHeaderLines ==
    {line \in HeaderLines :
        /\ Len(columns[line]) > 9
        /\ \E i, j \in 10..Len(columns[line]) : i # j /\ columns[line][i] = columns[line][j]}

\* the rule of the k-th column (CHROM, POS, ID, REF, ALT, QUAL, FILTER, INFO, FORMAT)
FieldRule(k, value) ==
    CASE k = 1 -> ReChrom(value)
      [] k = 2 -> RePos(value)
      [] k = 3 -> ReId(value) /\ (Contains(value, "LOSS") \/ Contains(value, "GAIN"))
      [] k = 4 -> ReRef(value)
      [] k = 5 -> value = "<CNV>"
      [] k = 6 -> ReQual(value) \/ value = "."
      [] k = 7 -> ReFilter(value)
      [] k = 8 -> Contains(value, "SVTYPE=CNV")
      [] k = 9 -> Contains(value, "CN")

\* the columns of a data line that break their rule
FailingColumns ==
    [line \in DataLines |->
        {k \in 1..9 : k <= Len(columns[line]) /\ ~FieldRule(k, columns[line][k])}]

\* data lines with fewer than 9 fields
ShortDataLines == {line \in DataLines : Len(columns[line]) < 9}

\* data lines with at least 9 fields that pass all nine field rules
ValidDataLines == {line \in DataLines \ ShortDataLines : FailingColumns[line] = {}}

\* the lines with a defect of their own
DefectiveLines ==
    ChrContigLines \cup NoFormatHeaderLines \cup DuplicateHeaderLines
        \cup (DataLines \ ValidDataLines)

Lines == {file[i] : i \in 1..Len(file)}

Done == pc = "done"
Opened == open_func # "unset"
Succeeded == outcome = "returned"
Failed == outcome = "SystemExit"
Crashed == outcome = "IndexError"
Consumed == line_number = Len(file)
NoFailureEmitted == \A i \in 1..Len(out) : ~StartsWith(out[i], "Error")

\* the index of the first line of the file that is in the set S (0: none)
First(S) ==
    IF Lines \cap S = {} THEN 0
    ELSE CHOOSE i \in 1..Len(file) : file[i] \in S /\ \A j \in 1..(i - 1) : file[j] \notin S

(***************************************************************************)
(* C1 as stated: every file read in which a ##fileformat line occurs, a    *)
(* #CHROM line occurs and every data line passes all nine field rules is   *)
(* consumed whole and ends in success with no failure emitted.             *)
(***************************************************************************)
C1_AsStated ==
    (Done /\ Opened /\ Lines \cap FileformatLines # {} /\ Lines \cap HeaderLines # {}
          /\ Lines \cap DataLines \subseteq ValidDataLines)
    => (Succeeded /\ Consumed /\ NoFailureEmitted)

\* the premises a file must meet besides: the header-tracker rules
C1_HeaderRulesMet ==
    Lines \cap (ChrContigLines \cup NoFormatHeaderLines \cup DuplicateHeaderLines) = {}

(***************************************************************************)
(* C1, amended: when, besides, no ##contig ID begins with "chr" and every  *)
(* #CHROM line meets the FORMAT and sample-name rules, the file is         *)
(* consumed whole and ends in success with no failure emitted; unless a    *)
(* ##contig line holds no '<', where the run stops at the first such line  *)
(* with an uncaught IndexError, having printed nothing.                    *)
(***************************************************************************)
C1_ValidFileSucceeds ==
    (Done /\ Opened /\ Lines \cap FileformatLines # {} /\ Lines \cap HeaderLines # {}
          /\ Lines \cap DataLines \subseteq ValidDataLines /\ C1_HeaderRulesMet)
    => IF Lines \cap BareContigLines = {}
       THEN Succeeded /\ Consumed /\ NoFailureEmitted
       ELSE Crashed /\ line_number = First(BareContigLines) /\ out = <<>>

\* a three-line valid file, data line included, has been validated with success
C1_Witness ==
    /\ Done /\ Succeeded /\ Len(file) = 3
    /\ Lines \cap FileformatLines # {} /\ Lines \cap HeaderLines # {}
    /\ Lines \cap DataLines # {} /\ Lines \cap DataLines \subseteq ValidDataLines
    /\ C1_HeaderRulesMet

\* the lines printed so far that report a failure
Failures == {i \in 1..Len(out) : StartsWith(out[i], "Error")}

\* the validator calls made on line i, in order, as <<k, value>>
CallsOn(i) ==
    LET on == SelectSeq(calls, LAMBDA c : c[1] = i)
    IN  [n \in 1..Len(on) |-> <<on[n][2], on[n][3]>>]

\* the least element of a non-empty set of numbers
Min(S) == CHOOSE k \in S : \A m \in S : k <= m

(***************************************************************************)
(* C2 as stated: a file with at least one defect gets exactly one failure  *)
(* report, for its first defect in reading order: the run stops on the     *)
(* lowest-numbered defective line and, in a data line, at the leftmost     *)
(* failing column, no later validator being called; a file whose only      *)
(* defect is a missing ##fileformat or #CHROM line is read to its end.     *)
(***************************************************************************)
C2_AsStated ==
    (Done /\ Opened /\ ( \/ Lines \cap DefectiveLines # {}
                         \/ Lines \cap FileformatLines = {}
                         \/ Lines \cap HeaderLines = {} ))
    => /\ Failed
       /\ Cardinality(Failures) = 1
       /\ IF Lines \cap DefectiveLines = {}
          THEN Consumed
          ELSE LET i == First(DefectiveLines)
                   line == file[i]
               IN  /\ line_number = i
                   /\ line \in ShortDataLines => CallsOn(i) = <<>>
                   /\ line \in DataLines \ ShortDataLines =>
                         /\ Len(CallsOn(i)) = Min(FailingColumns[line])
                         /\ \A k \in 1..Len(CallsOn(i)) : CallsOn(i)[k][1] = k

(***************************************************************************)
(* C3 as stated: a file with no ##fileformat line ends in failure,         *)
(* whatever its other lines are.                                           *)
(***************************************************************************)
C3_AsStated ==
    (Done /\ Opened /\ Lines \cap FileformatLines = {}) => Failed

(***************************************************************************)
(* C4 as stated: a file with no #CHROM line ends in failure, whatever its  *)
(* other lines are.                                                        *)
(***************************************************************************)
C4_AsStated ==
    (Done /\ Opened /\ Lines \cap HeaderLines = {}) => Failed

(***************************************************************************)
(* C5 as stated: validation succeeds only if a ##fileformat line occurs    *)
(* before the #CHROM line.                                                 *)
(***************************************************************************)
C5_AsStated ==
    (Done /\ Succeeded)
    => /\ Lines \cap FileformatLines # {}
       /\ First(FileformatLines) < First(HeaderLines)

(***************************************************************************)
(* C5, amended: validation succeeds only if a ##fileformat line occurs     *)
(* somewhere in the file and the run has seen it; where it stands          *)
(* relative to the #CHROM line does not matter.                            *)
(***************************************************************************)
C5_FileformatAnywhere ==
    (Done /\ Succeeded) => (fileformat_found /\ Lines \cap FileformatLines # {})

\* a file whose only ##fileformat line comes after its #CHROM line was accepted
C5_Witness ==
    /\ Done /\ Succeeded
    /\ First(HeaderLines) > 0
    /\ First(HeaderLines) < First(FileformatLines)

(***************************************************************************)
(* C6 as stated: a file with a #CHROM line of more than 8 fields whose     *)
(* field 8 is not FORMAT ends in failure.                                  *)
(***************************************************************************)
C6_AsStated ==
    (Done /\ Opened /\ Lines \cap NoFormatHeaderLines # {}) => Failed

(***************************************************************************)
(* C7 as stated: a file with a #CHROM line of more than 9 fields, two of   *)
(* whose sample names are equal, ends in failure.                          *)
(***************************************************************************)
C7_AsStated ==
    (Done /\ Opened /\ Lines \cap DuplicateHeaderLines # {}) => Failed

\* data lines whose ALT field is not <CNV>
BadAltLines == {line \in DataLines : Len(columns[line]) >= 5 /\ columns[line][5] # "<CNV>"}

(***************************************************************************)
(* C8 as stated: a file with a data line whose ALT is not <CNV> fails;     *)
(* when that line is the first defective one and ALT is its only failing   *)
(* field, the failure printed cites that line and is followed by the       *)
(* explanatory line.                                                       *)
(***************************************************************************)
C8_AsStated ==
    (Done /\ Opened /\ Lines \cap BadAltLines # {})
    => /\ Failed
       /\ LET i == First(DefectiveLines) IN
          (file[i] \in BadAltLines \ ShortDataLines /\ FailingColumns[file[i]] = {5})
          => /\ Len(out) = 2
             /\ StartsWith(out[1], "Error: Invalid alternate allele on line "
                                    \o ToString(i) \o ": ")
             /\ out[2] = "ALT must be <CNV> for copy number variants."

(***************************************************************************)
(* C9 as stated: a file with a ##contig line whose ID begins with "chr"    *)
(* fails; when no earlier line is defective the failure is raised at that  *)
(* line, cites its number, and no later line is read.                      *)
(***************************************************************************)
C9_AsStated ==
    (Done /\ Opened /\ Lines \cap ChrContigLines # {})
    => /\ Failed
       /\ LET i == First(ChrContigLines) IN
          First(DefectiveLines) = i
          => /\ line_number = i
             /\ Len(out) = 1
             /\ StartsWith(out[1], "Error: Contig ID starts with 'chr' on line "
                                    \o ToString(i) \o ": ")

\* the current line is a data line whose column count has been taken
AtDataLine ==
    Opened /\ line_number >= 1 /\ file[line_number] \in DataLines

\* the column-count error for the current line has been printed
ColumnCountError ==
    \E n \in 1..Len(out) :
        StartsWith(out[n], "Error: Incorrect number of columns on line "
                            \o ToString(line_number) \o ": ")

\* the calls made on the current line are the first validators, in the fixed
\* order, each on the field of its index in cols
ValidatorsAppliedTo(cols) ==
    LET made == CallsOn(line_number)
    IN  /\ Len(made) <= 9
        /\ \A k \in 1..Len(made) : made[k] = <<k, cols[k]>>
        /\ (pc = "loop" \/ Succeeded) => Len(made) = 9

(***************************************************************************)
(* C10 as stated: a data line fails with the column-count error, no        *)
(* validator having run on it, exactly when the line has fewer than 9      *)
(* tab-separated fields; otherwise no such error is raised and the nine    *)
(* validators are applied to fields 0 to 8 of the line.                    *)
(***************************************************************************)
C10_AsStated ==
    AtDataLine =>
        LET cols == raw_columns[file[line_number]] IN
        IF Len(cols) < 9
        THEN Failed /\ ColumnCountError /\ CallsOn(line_number) = <<>>
        ELSE ~ColumnCountError /\ ValidatorsAppliedTo(cols)

(***************************************************************************)
(* C10, amended: the fields counted and validated are those of the line    *)
(* with its leading and trailing whitespace (tabs included) removed: the   *)
(* column-count error is raised, no validator having run, exactly when     *)
(* that trimmed line has fewer than 9 tab-separated fields; otherwise the  *)
(* nine validators are applied to its fields 0 to 8.                       *)
(***************************************************************************)
C10_ColumnCountOfTrimmedLine ==
    AtDataLine =>
        LET cols == columns[file[line_number]] IN
        IF Len(cols) < 9
        THEN Failed /\ ColumnCountError /\ CallsOn(line_number) = <<>>
        ELSE ~ColumnCountError /\ ValidatorsAppliedTo(cols)

\* a line with 9 tab-separated fields, the last one empty, got the
\* column-count error
C10_Witness ==
    /\ AtDataLine /\ Done /\ ColumnCountError
    /\ Len(raw_columns[file[line_number]]) = 9
    /\ Len(columns[file[line_number]]) = 8

\* the number of #CHROM lines in the file
HeaderCount == Cardinality({i \in 1..Len(file) : file[i] \in HeaderLines})

(***************************************************************************)
(* C11 as stated: validation succeeds only if the file holds exactly one   *)
(* #CHROM line.                                                            *)
(***************************************************************************)
C11_AsStated ==
    (Done /\ Succeeded) => HeaderCount = 1

(***************************************************************************)
(* C11, amended: validation succeeds only if the file holds at least one   *)
(* #CHROM line and the run has seen it; a file with two or more, each      *)
(* meeting the header rules, is accepted.                                  *)
(***************************************************************************)
C11_AtLeastOneHeader ==
    (Done /\ Succeeded) => (header_found /\ HeaderCount >= 1)

\* a file with two #CHROM lines was accepted
C11_Witness ==
    Done /\ Succeeded /\ HeaderCount = 2

CompletionMessage == "VCF file validation completed. No structural errors found."

DefaultArguments == ~strict /\ ~report

(***************************************************************************)
(* C14 as stated: validate_vcf called on a valid file with the default     *)
(* arguments writes output containing "VCF file validation completed".     *)
(***************************************************************************)
C14_AsStated ==
    (Done /\ Succeeded /\ DefaultArguments)
        => \E i \in 1..Len(out) : Contains(out[i], "VCF file validation completed")

\* the run ended on a data line with nine fields or more whose leftmost failing
\* field is ALT
FailedOnAlt ==
    /\ AtDataLine
    /\ Len(columns[file[line_number]]) >= 9
    /\ FailingColumns[file[line_number]] # {}
    /\ Min(FailingColumns[file[line_number]]) = 5

(***************************************************************************)
(* C15 as stated: a failed run has printed exactly one line, except that   *)
(* the ALT failure prints exactly two.                                     *)
(***************************************************************************)
C15_AsStated ==
    (Done /\ Failed) => Len(out) = (IF FailedOnAlt THEN 2 ELSE 1)

(***************************************************************************)
(* C15 amended: a failed run has printed exactly one line, except that the *)
(* ALT failure and the file-kind failure (unrecognised extension) print    *)
(* exactly two; the failure ends the run (SystemExit), and no step is      *)
(* taken from an ended run: nothing further is printed or read.            *)
(***************************************************************************)
C15_OneLineExceptAltAndFileKind ==
    [][ /\ ~Done
        /\ (Done' /\ Failed') =>
               Len(out') = (IF ~Opened' \/ FailedOnAlt' THEN 2 ELSE 1) ]_vars

\* the file-kind failure has printed its two lines
C15_Witness ==
    /\ Done /\ Failed /\ ~Opened
    /\ out = <<"File type not recognised.", "Usage: python vcf_validation.py <*.vcf|*.gz>">>

\* the run failed on a line of the header tracker: a contig ID beginning with
\* "chr", a header line without FORMAT, a header line with duplicate samples
FailedInHeaderTracker ==
    /\ Done /\ Failed /\ Opened /\ line_number >= 1
    /\ file[line_number] \in ChrContigLines \cup NoFormatHeaderLines \cup DuplicateHeaderLines

(***************************************************************************)
(* C16 as stated: each of the three header-tracker failures reports the    *)
(* 1-based line number of the offending line and halts the run.            *)
(***************************************************************************)
C16_AsStated ==
    FailedInHeaderTracker =>
        /\ Len(out) = 1
        /\ Contains(out[1], " line " \o ToString(line_number))

(***************************************************************************)
(* C17: the file handle is released on every exit path.  In every ended    *)
(* run (success, failure on a line, failure at end of stream) the handle   *)
(* that was opened is closed; when the extension is not recognised no      *)
(* handle was ever opened.                                                 *)
(***************************************************************************)
C17_HandleReleased ==
    /\ Done => handle = (IF Opened THEN "closed" ELSE "none")
    /\ ~Opened => handle = "none"

\* a run that failed on a line it read has closed the file
C17_Witness == Done /\ Failed /\ Opened /\ ~Consumed /\ handle = "closed"

\* ##contig lines whose ID= attribute is absent or malformed: no attribute list
\* at all, or an attribute list without an ID= attribute
NoIdContigLines ==
    BareContigLines \cup {line \in ContigLines \ BareContigLines : ~Contains(line, "ID=")}

(***************************************************************************)
(* C18 as stated: reading a ##contig line whose ID= attribute is absent or *)
(* malformed (a line with no angle-bracketed attribute list included) is a *)
(* silent skip: the run goes on to the next line, nothing is printed, and  *)
(* nothing of the validation state changes but the line counter.           *)
(***************************************************************************)
C18_AsStated ==
    [][ (/\ pc = "loop"
         /\ line_number < Len(file)
         /\ file[line_number + 1] \in NoIdContigLines)
        => /\ pc' = "loop"
           /\ outcome' = "running"
           /\ line_number' = line_number + 1
           /\ UNCHANGED <<fileformat_found, header_found, out, calls, handle>> ]_vars

\* the file meets (a) to (e): a ##fileformat line, a #CHROM line, no contig ID
\* beginning with "chr", every #CHROM line with FORMAT ninth and distinct sample
\* names, every other line with nine fields or more that pass the field rules
MeetsAllRules ==
    /\ Lines \cap FileformatLines # {}
    /\ Lines \cap HeaderLines # {}
    /\ Lines \cap ChrContigLines = {}
    /\ Lines \cap (NoFormatHeaderLines \cup DuplicateHeaderLines) = {}
    /\ Lines \cap DataLines \subseteq ValidDataLines

(***************************************************************************)
(* C19 as stated: a run on a .vcf or .gz path ends in success or in        *)
(* failure, never anything else, and in success exactly when the whole     *)
(* stream was consumed and the file meets (a) to (e).                      *)
(***************************************************************************)
C19_AsStated ==
    (Done /\ Opened) =>
        /\ Succeeded \/ Failed
        /\ Succeeded <=> (Consumed /\ MeetsAllRules)
        /\ Failed <=> ~(Consumed /\ MeetsAllRules)

\* the physical lines read so far
LinesRead == {file[i] : i \in 1..position}

\* a flag has been inspected: one of the end-of-stream failures is printed
FlagsInspected ==
    \/ pc = "report"
    \/ Succeeded
    \/ \E i \in 1..Len(out) :
           out[i] \in {"Error: Missing ##fileformat header", "Error: Missing #CHROM header line"}

ValidationState ==
    /\ line_number = position
    /\ fileformat_found <=> (LinesRead \cap FileformatLines # {})
    /\ header_found <=> (LinesRead \cap HeaderLines # {})
    /\ FlagsInspected => position = Len(file)

(***************************************************************************)
(* C20: the validation state.  After every step of a run, the line counter *)
(* is the number of physical lines read so far, fileformat_found is true   *)
(* iff some line read so far begins with ##fileformat, header_found is     *)
(* true iff some line read so far begins with #CHROM, and the flags have   *)
(* been inspected only if the last line has been read; a step that reads a *)
(* line (meta, header or data) adds exactly 1 to the counter and no other  *)
(* step changes it, and no step takes a flag from true back to false.      *)
(***************************************************************************)
C20_ValidationState ==
    [][ /\ ValidationState'
        /\ line_number' - line_number = position' - position
        /\ position' - position \in {0, 1}
        /\ fileformat_found => fileformat_found'
        /\ header_found => header_found' ]_vars

\* both flags are set and counted lines remain to be read
C20_Witness ==
    /\ pc = "loop" /\ line_number = 2 /\ position < Len(file)
    /\ fileformat_found /\ header_found

=============================================================================
